---------------------------- MODULE Spec2Model ----------------------------
(***************************************************************************)
(* A model of the prompt optimization agent: the parser                    *)
(* (agent/parser.py), the prompt builder (agent/optimizer.py) and the      *)
(* validator (agent/validator.py).                                         *)
(*                                                                         *)
(* Python strings are TLA+ strings; TLC evaluates Len, \o and SubSeq on    *)
(* them, so every operation below works on characters as the code does.    *)
(* The alphabet is ASCII: lower() maps A-Z to a-z and the white space of   *)
(* strip(), split() and \s is blank, tab, line feed, carriage return and   *)
(* form feed.                                                              *)
(***************************************************************************)
EXTENDS Integers, Sequences, FiniteSets, TLC

(***************************************************************************)
(* Characters and the str methods the code uses.                           *)
(***************************************************************************)
UpperLetters == "ABCDEFGHIJKLMNOPQRSTUVWXYZ"
LowerLetters == "abcdefghijklmnopqrstuvwxyz"
WhiteSpace == {" ", "\t", "\n", "\r", "\f"}

At(s, i) == SubSeq(s, i, i)

UpperSet == {At(UpperLetters, k) : k \in 1..26}
LowerMap ==
    [c \in UpperSet |-> At(LowerLetters, CHOOSE k \in 1..26 : At(UpperLetters, k) = c)]

LowerChar(c) == IF c \in UpperSet THEN LowerMap[c] ELSE c

RECURSIVE Lower(_)
Lower(s) ==
    IF Len(s) = 0 THEN ""
    ELSE IF Len(s) = 1 THEN LowerChar(s)
    ELSE LET h == Len(s) \div 2
         IN  Lower(SubSeq(s, 1, h)) \o Lower(SubSeq(s, h + 1, Len(s)))

SetMin(S) == CHOOSE x \in S : \A y \in S : x <= y
\* the maximum, found as the minimum of the negated set
SetMax(S) == 0 - SetMin({0 - x : x \in S})

\* s[a:b] of the code, with 1-based inclusive positions a..b
Slice(s, a, b) == IF a > b THEN "" ELSE SubSeq(s, a, b)

StartsAt(s, i, w) ==
    /\ i + Len(w) - 1 <= Len(s)
    /\ SubSeq(s, i, i + Len(w) - 1) = w

\* w in s
Contains(s, w) == \E i \in 1..(Len(s) - Len(w) + 1) : StartsAt(s, i, w)

\* s.count(c) for a one-character c
Count(s, c) == Cardinality({i \in 1..Len(s) : At(s, i) = c})

\* s.strip()
Strip(s) ==
    LET ink == {i \in 1..Len(s) : At(s, i) \notin WhiteSpace}
    IN  IF ink = {} THEN "" ELSE SubSeq(s, SetMin(ink), SetMax(ink))

\* len(s.split()): the number of maximal runs of non-white-space characters
WordCount(s) ==
    Cardinality({i \in 1..Len(s) :
        /\ At(s, i) \notin WhiteSpace
        /\ (i = 1 \/ At(s, i - 1) \in WhiteSpace)})

RECURSIVE Join(_, _)
\* sep.join(parts)
Join(parts, sep) ==
    IF Len(parts) = 0 THEN ""
    ELSE IF Len(parts) = 1 THEN parts[1]
    ELSE parts[1] \o sep \o Join(Tail(parts), sep)

(***************************************************************************)
(* The regular expressions of the re module, as a backtracking matcher.    *)
(* A pattern is a sequence of nodes:                                       *)
(*   Lit(w)      the literal w                                             *)
(*   Ws1, Ws0    \s+ and \s*, greedy                                       *)
(*   Alt(alts)   (?:a1|a2|...), each alternative a node sequence, tried in *)
(*               order; AnyOf(ws) is the same for literals and Opt(a) is   *)
(*               (?:a)?, greedy                                            *)
(*   Cap         (.+?), the lazy group 1; "." does not match a line feed   *)
(*   Eos         $, the end of the string or just before a final line feed *)
(* First(nodes, s, i, g) is the match the engine finds first when it       *)
(* matches nodes at position i of s, g being the span of group 1 so far.   *)
(***************************************************************************)
Lit(w) == [t |-> "lit", w |-> w]
Ws1 == [t |-> "ws", min |-> 1]
Ws0 == [t |-> "ws", min |-> 0]
Alt(alts) == [t |-> "alt", alts |-> alts]
Opt(a) == Alt(<<a, <<>>>>)
Cap == [t |-> "cap"]
Eos == [t |-> "eos"]

\* (?:w1|w2|...) for literals, tried in order
AnyOf(ws) == [t |-> "any", ws |-> ws]

NoMatch == [ok |-> FALSE, end |-> 0, g |-> <<0, 0>>]

\* the length of the white-space run of s that starts at position i
WsRun(s, i) ==
    LET stop == {j \in i..Len(s) : At(s, j) \notin WhiteSpace}
    IN  IF stop = {} THEN Len(s) - i + 1 ELSE SetMin(stop) - i

\* the length of the run without a line feed that starts at position i
DotRun(s, i) ==
    LET stop == {j \in i..Len(s) : At(s, j) = "\n"}
    IN  IF stop = {} THEN Len(s) - i + 1 ELSE SetMin(stop) - i

\* the match r if it is one, else the next attempt
OrElse(r, next) == IF r.ok THEN r ELSE next

RECURSIVE First(_, _, _, _)
RECURSIVE TryWs(_, _, _, _, _, _)
RECURSIVE TryAlts(_, _, _, _, _, _)
RECURSIVE TryWords(_, _, _, _, _, _)

First(nodes, s, i, g) ==
    IF Len(nodes) = 0 THEN [ok |-> TRUE, end |-> i, g |-> g]
    ELSE LET n == Head(nodes)
             rest == Tail(nodes)
         IN  CASE n.t = "lit" ->
                    IF StartsAt(s, i, n.w)
                    THEN First(rest, s, i + Len(n.w), g)
                    ELSE NoMatch
               [] n.t = "ws" -> TryWs(rest, s, i, WsRun(s, i), n.min, g)
               [] n.t = "any" -> TryWords(n.ws, 1, rest, s, i, g)
               [] n.t = "alt" -> TryAlts(n.alts, 1, rest, s, i, g)
               [] n.t = "eos" ->
                    IF i = Len(s) + 1 \/ (i = Len(s) /\ At(s, i) = "\n")
                    THEN First(rest, s, i, g)
                    ELSE NoMatch
               [] n.t = "cap" ->
                    LET fits == {k \in 1..DotRun(s, i) :
                                    First(rest, s, i + k, <<i, i + k - 1>>).ok}
                    IN  IF fits = {} THEN NoMatch
                        ELSE LET k == SetMin(fits)
                             IN  First(rest, s, i + k, <<i, i + k - 1>>)

\* greedy white space: the longest run first, then shorter ones
TryWs(rest, s, i, k, min, g) ==
    IF k < min THEN NoMatch
    ELSE OrElse(First(rest, s, i + k, g), TryWs(rest, s, i, k - 1, min, g))

\* alternatives in the order they are written
TryAlts(alts, k, rest, s, i, g) ==
    IF k > Len(alts) THEN NoMatch
    ELSE OrElse(First(alts[k] \o rest, s, i, g), TryAlts(alts, k + 1, rest, s, i, g))

\* literal alternatives in the order they are written
TryWords(ws, k, rest, s, i, g) ==
    IF k > Len(ws) THEN NoMatch
    ELSE IF StartsAt(s, i, ws[k])
    THEN OrElse(First(rest, s, i + Len(ws[k]), g), TryWords(ws, k + 1, rest, s, i, g))
    ELSE TryWords(ws, k + 1, rest, s, i, g)

\* re.search(pattern, s) from position from on: the leftmost match
SearchFrom(nodes, s, from) ==
    LET starts == {i \in from..(Len(s) + 1) : First(nodes, s, i, <<0, 0>>).ok}
    IN  IF starts = {} THEN NoMatch
        ELSE First(nodes, s, SetMin(starts), <<0, 0>>)

Search(nodes, s) == SearchFrom(nodes, s, 1)

\* match.group(1), read from text (the pattern may have run on text.lower())
Group1(text, m) == Slice(text, m.g[1], m.g[2])

\* re.sub(r'^...', '', s): the match anchored at the start is removed
SubPrefix(nodes, s) ==
    LET m == First(nodes, Lower(s), 1, <<0, 0>>)
    IN  IF m.ok THEN Slice(s, m.end, Len(s)) ELSE s

(***************************************************************************)
(* NaturalLanguageParser                                                   *)
(***************************************************************************)
DotOrEnd == Alt(<< <<Lit(".")>>, <<Eos>> >>)
ActionVerbs == AnyOf(<<"write", "create", "generate", "make", "build", "develop">>)

\* self.intent_patterns, as __init__ sets it
IntentPatterns ==
    << <<ActionVerbs, Ws1, Cap, DotOrEnd>>,
       <<AnyOf(<<"explain", "describe", "tell me about">>), Ws1, Cap, DotOrEnd>>,
       <<AnyOf(<<"help", "assist", "guide">>), Ws1, Opt(<<Lit("me"), Ws1>>),
         AnyOf(<<"with", "to">>), Ws1, Cap, DotOrEnd>>,
       <<Opt(<<Lit("i"), Ws1>>), AnyOf(<<"want", "need", "would like">>), Ws1,
         Opt(<<Lit("to"), Ws1>>), Cap, DotOrEnd>> >>

\* self.requirement_keywords, as __init__ sets it
RequirementKeywords ==
    <<"should", "must", "need", "require", "include",
      "with", "containing", "that", "having">>

AltIntentPatterns ==
    << <<ActionVerbs, Ws1, Opt(<<Lit("me"), Ws1>>), Opt(<<Lit("a"), Ws1>>),
         Cap, DotOrEnd>>,
       <<ActionVerbs, Ws1, Cap, DotOrEnd>> >>

PronounPrefix ==
    <<Alt(<< <<Lit("me")>>, <<Lit("us")>>, <<Lit("you")>>,
             <<Lit("for"), Ws1, Lit("me")>>, <<Lit("for"), Ws1, Lit("us")>> >>),
      Ws1>>
ArticlePrefix == <<AnyOf(<<"a", "an", "the">>), Ws1>>
PronounOrArticlePrefix ==
    <<Alt(<< <<Lit("me")>>, <<Lit("us")>>, <<Lit("you")>>,
             <<Lit("for"), Ws1, Lit("me")>>, <<Lit("for"), Ws1, Lit("us")>>,
             <<Lit("a")>>, <<Lit("an")>>, <<Lit("the")>> >>),
      Ws1>>

\* FirstMatching taking the pattern whose capture starts first in s
FirstMatchingByPosition(patterns, s) ==
    LET hits == {k \in 1..Len(patterns) : Search(patterns[k], s).ok}
        at(k) == Search(patterns[k], s).g[1]
    IN  IF hits = {} THEN 0
        ELSE CHOOSE k \in hits : \A h \in hits : at(k) < at(h) \/ (at(k) = at(h) /\ k <= h)

\* the index of the first pattern of the list that matches s, 0 if none does
FirstMatching(patterns, s) ==
    LET hits == {k \in 1..Len(patterns) : Search(patterns[k], s).ok}
    IN  IF hits = {} THEN 0 ELSE SetMin(hits)

\* the inner loop of _extract_intent over alt_patterns
AltIntentOfPattern(k, intent, text_lower) ==
    IF k = 0 THEN intent
    ELSE SubPrefix(PronounOrArticlePrefix,
             Strip(Group1(text_lower, Search(AltIntentPatterns[k], text_lower))))

AltIntent(intent, text_lower) ==
    AltIntentOfPattern(FirstMatching(AltIntentPatterns, text_lower), intent, text_lower)

\* what _extract_intent returns for the intent left by the two re.sub
RefineIntent(intent, text_lower) ==
    IF WordCount(intent) <= 2 /\ Contains(Lower(intent), "me")
    THEN Strip(AltIntent(intent, text_lower))
    ELSE Strip(intent)

CleanIntent(captured, text_lower) ==
    RefineIntent(SubPrefix(ArticlePrefix, SubPrefix(PronounPrefix, Strip(captured))),
                 text_lower)

\* _extract_intent, text_lower being text.lower() and k the index of the
\* first pattern that matches it
IntentOfPattern(patterns, k, text, text_lower) ==
    IF k = 0 THEN text
    ELSE CleanIntent(Group1(text_lower, Search(patterns[k], text_lower)), text_lower)

IntentIn(patterns, text, text_lower) ==
    IntentOfPattern(patterns, FirstMatching(patterns, text_lower), text, text_lower)

ExtractIntent(patterns, text) == IntentIn(patterns, text, Lower(text))

ContextEnd(verbs) ==
    Alt(<< <<Lit(",")>>, <<Lit(".")>>,
           <<Ws1, Lit(verbs[1])>>, <<Ws1, Lit(verbs[2])>>, <<Ws1, Lit(verbs[3])>> >>)

ContextPatterns ==
    << <<Lit("given"), Ws1, Opt(<<Lit("that"), Ws1>>), Cap,
         ContextEnd(<<"explain", "write", "create">>)>>,
       <<Lit("assuming"), Ws1, Opt(<<Lit("that"), Ws1>>), Cap,
         ContextEnd(<<"explain", "write", "create">>)>>,
       <<Lit("for"), Ws1, Opt(<<Lit("a"), Ws1>>), Cap,
         ContextEnd(<<"write", "create", "explain">>)>>,
       <<AnyOf(<<"context", "background", "situation">>), Lit(":"), Ws0, Cap, DotOrEnd>>,
       <<Lit("as"), Ws1, Opt(<<Lit("a"), Ws1>>), Cap,
         Alt(<< <<Lit(",")>>, <<Lit(".")>>, <<Ws1, Lit("explain")>>, <<Ws1, Lit("write")>> >>)>> >>

\* what pattern k of context_patterns yields: the stripped capture without a
\* leading article, or "" when the pattern does not match
ContextOfMatch(text, m) ==
    IF m.ok THEN SubPrefix(ArticlePrefix, Strip(Group1(text, m))) ELSE ""

ContextOf(k, text, text_lower) == ContextOfMatch(text, Search(ContextPatterns[k], text_lower))

\* FirstMeaningful stopping at the first pattern that matched
RECURSIVE FirstMeaningfulOrNothing(_)
FirstMeaningfulOrNothing(list) ==
    IF Len(list) = 0 THEN ""
    ELSE IF Head(list) = "" THEN FirstMeaningfulOrNothing(Tail(list))
    ELSE IF Len(Head(list)) > 3 THEN Head(list)
    ELSE ""

\* the first context of list that is longer than 3 characters, "" if none is
RECURSIVE FirstMeaningful(_)
FirstMeaningful(list) ==
    IF Len(list) = 0 THEN ""
    ELSE IF Len(Head(list)) > 3 THEN Head(list)
    ELSE FirstMeaningful(Tail(list))

ContextIn(text, text_lower) ==
    FirstMeaningful([k \in 1..Len(ContextPatterns) |-> ContextOf(k, text, text_lower)])

ExtractContext(text) == ContextIn(text, Lower(text))

\* the pattern of the keyword loop (the keyword does not occur in it)
RequirementPattern(keyword) ==
    <<AnyOf(<<"it", "the", "this">>), Ws1,
      AnyOf(<<"should", "must", "need", "require", "include">>), Ws1, Cap,
      Alt(<< <<Lit(".")>>, <<Lit(",")>>, <<Eos>> >>)>>

ListPattern == <<AnyOf(<<"should", "must", "need">>), Ws1, Lit("be"), Ws1, Cap, DotOrEnd>>

\* the list of the requirement req, if it is one
IfRequirement(req) == IF req # "" THEN <<req>> ELSE <<>>

RECURSIVE FindAll(_, _, _, _)
RECURSIVE FindRest(_, _, _, _)
\* the stripped, non-empty group 1 of every match of re.finditer from
\* position from on, in order; text_lower is text.lower()
FindAll(nodes, text, text_lower, from) ==
    FindRest(nodes, text, text_lower, SearchFrom(nodes, text_lower, from))

\* the same, m being the next match
FindRest(nodes, text, text_lower, m) ==
    IF ~m.ok THEN <<>>
    ELSE IfRequirement(Strip(Group1(text, m))) \o FindAll(nodes, text, text_lower, m.end)

RECURSIVE KeywordLoop(_, _, _, _)
KeywordLoop(keywords, k, text, text_lower) ==
    IF k > Len(keywords) THEN <<>>
    ELSE FindAll(RequirementPattern(keywords[k]), text, text_lower, 1)
             \o KeywordLoop(keywords, k + 1, text, text_lower)

RequirementsIn(keywords, text, text_lower) ==
    KeywordLoop(keywords, 1, text, text_lower) \o FindAll(ListPattern, text, text_lower, 1)

\* the list requirements before it is made a set
CollectRequirements(keywords, text) == RequirementsIn(keywords, text, Lower(text))

Range(seq) == {seq[k] : k \in 1..Len(seq)}

\* list(set(items)): the elements of items once each, in an order that the
\* hash of the strings decides, so in any order
ListOfSet(items) ==
    LET S == Range(items)
    IN  {p \in [1..Cardinality(S) -> S] : Range(p) = S}

\* ExtractRequirements returning the list as it was collected
ExtractRequirementsAsCollected(keywords, text) == {CollectRequirements(keywords, text)}

ExtractRequirements(keywords, text) == ListOfSet(CollectRequirements(keywords, text))

DirectFormats == <<"json", "xml", "markdown", "html", "csv", "yaml">>
FormatLeadIn == AnyOf(<<"in", "as", "with", "using">>)
DirectFormatPattern(fmt) ==
    <<FormatLeadIn, Ws1, Opt(<<AnyOf(<<"a", "an">>)>>), Ws0, Lit(fmt)>>

FormatPatterns ==
    << <<FormatLeadIn, Ws1, Opt(<<AnyOf(<<"a", "an">>)>>), Ws0,
         Opt(<<Lit("output"), Ws1>>),
         AnyOf(<<"format", "structure", "style", "type", "form">>), Ws1,
         Opt(<<Lit("of"), Ws1>>), Cap, DotOrEnd>>,
       <<AnyOf(<<"format", "structure", "style">>), Ws0, Lit(":"), Ws0, Cap, DotOrEnd>> >>

FormatDesc(k, text_lower) == Strip(Group1(text_lower, Search(FormatPatterns[k], text_lower)))

OutputFormatIn(text_lower) ==
    LET direct == {k \in 1..Len(DirectFormats) :
                      /\ Contains(text_lower, DirectFormats[k])
                      /\ Search(DirectFormatPattern(DirectFormats[k]), text_lower).ok}
        described == {k \in 1..Len(FormatPatterns) :
                         /\ Search(FormatPatterns[k], text_lower).ok
                         /\ Lower(FormatDesc(k, text_lower)) # "format"}
    IN  IF direct # {} THEN DirectFormats[SetMin(direct)]
        ELSE IF described # {} THEN FormatDesc(SetMin(described), text_lower)
        ELSE ""

ExtractOutputFormat(text) == OutputFormatIn(Lower(text))

\* parsed_data of parse, the requirements being in the order reqs
ParsedData(patterns, text, reqs) ==
    [intent |-> ExtractIntent(patterns, text),
     context |-> ExtractContext(text),
     requirements |-> reqs,
     output_format |-> ExtractOutputFormat(text),
     original_text |-> text]

\* the same record with the requirements in another order
WithRequirements(parsed_data, reqs) == [parsed_data EXCEPT !.requirements = reqs]

\* parse(raw) with the requirements in the order reqs, one of
\* ParseRequirements(keywords, raw)
ParseRequirements(keywords, raw) == ExtractRequirements(keywords, Strip(raw))
Parse(patterns, raw, reqs) == ParsedData(patterns, Strip(raw), reqs)

\* the records parse(raw) can return: one for each order of the requirements
ParseResults(patterns, keywords, raw) ==
    {WithRequirements(Parse(patterns, raw, <<>>), reqs) :
        reqs \in ParseRequirements(keywords, raw)}

(***************************************************************************)
(* PromptOptimizer                                                         *)
(***************************************************************************)
ComplexIndicators ==
    <<"analyze", "create", "build", "develop", "design", "write",
      "report", "plan", "explain", "compare", "evaluate">>

\* any(indicator in s for indicator in words)
ContainsAny(s, words) == \E k \in 1..Len(words) : Contains(s, words[k])

\* IsComplexTask with one requirement being enough
IsComplexTaskAnyRequirement(intent, requirements) ==
    LET has_complex_indicator == ContainsAny(Lower(intent), ComplexIndicators)
        has_multiple_requirements == Len(requirements) >= 1
    IN  has_complex_indicator \/ has_multiple_requirements

IsComplexTask(intent, requirements) ==
    LET has_complex_indicator == ContainsAny(Lower(intent), ComplexIndicators)
        has_multiple_requirements == Len(requirements) >= 2
    IN  has_complex_indicator \/ has_multiple_requirements

\* role_mappings, in the order the dict is written
RoleMappings ==
    << <<"story", "an expert creative writer">>,
       <<"write", "an expert writer">>,
       <<"explain", "an expert educator">>,
       <<"analyze", "an expert data analyst">>,
       <<"code", "an expert software developer">>,
       <<"design", "an expert designer">>,
       <<"plan", "an expert strategist">>,
       <<"report", "an expert analyst">>,
       <<"create", "a creative professional">> >>

\* FirstKeyIn taking the key that occurs first in s
FirstKeyInByPosition(mappings, s, default) ==
    LET hits == {k \in 1..Len(mappings) : Contains(s, mappings[k][1])}
        at(k) == SetMin({i \in 1..Len(s) : StartsAt(s, i, mappings[k][1])})
    IN  IF hits = {} THEN default
        ELSE mappings[CHOOSE k \in hits : \A h \in hits : at(k) <= at(h)][2]

\* the value of the first pair of mappings whose key occurs in s, else default
FirstKeyIn(mappings, s, default) ==
    LET hits == {k \in 1..Len(mappings) : Contains(s, mappings[k][1])}
    IN  IF hits = {} THEN default ELSE mappings[SetMin(hits)][2]

DetermineRole(intent) == FirstKeyIn(RoleMappings, Lower(intent), "an expert assistant")

\* CreateMainInstruction with a heading that does not name the task
CreateMainInstructionUnnamed(intent, original_text) ==
    IF original_text # "" /\ Len(original_text) > Len(intent) + 10
    THEN "Please complete the following request:\n\n\"\"\"" \o original_text \o "\"\"\""
    ELSE "Task: " \o intent \o "."

CreateMainInstruction(intent, original_text) ==
    IF original_text # "" /\ Len(original_text) > Len(intent) + 10
    THEN "Please complete the following task:\n\n\"\"\"" \o original_text \o "\"\"\""
    ELSE "Task: " \o intent \o "."

\* the if/elif chain of _generate_steps on intent.lower()
StepsFor(intent_lower) ==
    IF Contains(intent_lower, "write") \/ Contains(intent_lower, "story")
    THEN <<"Plan the structure and key elements",
           "Develop the content with clear narrative",
           "Review and refine for clarity and engagement">>
    ELSE IF Contains(intent_lower, "analyze") \/ Contains(intent_lower, "report")
    THEN <<"Identify key data points and information",
           "Analyze patterns and relationships",
           "Present findings in a clear, structured format">>
    ELSE IF Contains(intent_lower, "explain")
    THEN <<"Break down the concept into understandable parts",
           "Provide examples and analogies",
           "Summarize key takeaways">>
    ELSE IF Contains(intent_lower, "create") \/ Contains(intent_lower, "build")
    THEN <<"Define the requirements and scope",
           "Design the approach or structure",
           "Implement the solution step by step">>
    ELSE <<"Understand the requirements",
           "Break down into manageable components",
           "Execute systematically">>

GenerateSteps(intent, requirements) == StepsFor(Lower(intent))

\* format_hints, in the order the dict is written
FormatHints ==
    << <<"story", "narrative format with clear paragraphs">>,
       <<"report", "structured format with sections and headings">>,
       <<"list", "bulleted or numbered list format">>,
       <<"code", "code format with syntax highlighting">>,
       <<"explain", "clear explanation with examples">>,
       <<"analyze", "analysis format with findings and conclusions">> >>

CreateOutputFormatSpec(output_format, intent) ==
    IF output_format # ""
    THEN "Output Format: Provide your response in " \o output_format \o " format."
    ELSE LET format_desc == FirstKeyIn(FormatHints, Lower(intent), "")
         IN  IF format_desc = "" THEN ""
             ELSE "Output Format: Provide your response in " \o format_desc \o "."

\* the lines f"- {req}" of the requirements, f"{i}. {step}" of the steps
Bullets(requirements) == [k \in 1..Len(requirements) |-> "- " \o requirements[k]]
Numbered(steps) == [k \in 1..Len(steps) |-> ToString(k) \o ". " \o steps[k]]

ClosingDirective == "\nPlease be specific, clear, and comprehensive in your response."

\* PromptParts with the requirements ahead of the context
PromptPartsRequirementsFirst(parsed_data) ==
    LET intent == parsed_data.intent
        context == parsed_data.context
        requirements == parsed_data.requirements
        is_complex == IsComplexTask(intent, requirements)
        role == DetermineRole(intent)
        steps == GenerateSteps(intent, requirements)
        format_spec == CreateOutputFormatSpec(parsed_data.output_format, intent)
    IN  (IF role # "" THEN <<"You are " \o role \o ".">> ELSE <<>>)
        \o <<CreateMainInstruction(intent, parsed_data.original_text)>>
        \o (IF Len(requirements) > 0
            THEN <<"\nRequirements:">> \o Bullets(requirements) ELSE <<>>)
        \o (IF context # "" THEN <<"\nContext:\n\"\"\"" \o context \o "\"\"\"">> ELSE <<>>)
        \o (IF is_complex /\ Len(steps) > 0
            THEN <<"\nPlease follow these steps:">> \o Numbered(steps) ELSE <<>>)
        \o (IF format_spec # "" THEN <<"\n" \o format_spec>> ELSE <<>>)
        \o <<ClosingDirective>>

\* prompt_parts of _build_prompt
PromptParts(parsed_data) ==
    LET intent == parsed_data.intent
        context == parsed_data.context
        requirements == parsed_data.requirements
        is_complex == IsComplexTask(intent, requirements)
        role == DetermineRole(intent)
        steps == GenerateSteps(intent, requirements)
        format_spec == CreateOutputFormatSpec(parsed_data.output_format, intent)
    IN  (IF role # "" THEN <<"You are " \o role \o ".">> ELSE <<>>)
        \o <<CreateMainInstruction(intent, parsed_data.original_text)>>
        \o (IF context # "" THEN <<"\nContext:\n\"\"\"" \o context \o "\"\"\"">> ELSE <<>>)
        \o (IF Len(requirements) > 0
            THEN <<"\nRequirements:">> \o Bullets(requirements) ELSE <<>>)
        \o (IF is_complex /\ Len(steps) > 0
            THEN <<"\nPlease follow these steps:">> \o Numbered(steps) ELSE <<>>)
        \o (IF format_spec # "" THEN <<"\n" \o format_spec>> ELSE <<>>)
        \o <<ClosingDirective>>

BuildPrompt(parsed_data) == Join(PromptParts(parsed_data), "\n")

(***************************************************************************)
(* PromptValidator                                                         *)
(***************************************************************************)
IsTooVague(prompt) ==
    \/ WordCount(prompt) < 10
    \/ Count(prompt, "?") > Count(prompt, ".")

\* the suggestions of _check_best_practices
BestPracticesFor(prompt, lower) ==
    (IF ~Contains(lower, "example") /\ ~Contains(lower, "sample")
     THEN <<"Consider adding examples for better clarity">> ELSE <<>>)
    \o (IF WordCount(prompt) > 100 /\ ~Contains(lower, "step")
        THEN <<"For complex tasks, consider breaking into steps">> ELSE <<>>)

CheckBestPractices(prompt) == BestPracticesFor(prompt, Lower(prompt))

\* Deduction looking for the capitalised word in the lower-cased issue
DeductionCapitalised(issue) ==
    LET lower == Lower(issue)
    IN  IF Contains(lower, "too short") \/ Contains(lower, "too long") THEN 20
        ELSE IF Contains(lower, "Missing") THEN 15
        ELSE 10

\* what one issue takes off the score
Deduction(issue) ==
    LET lower == Lower(issue)
    IN  IF Contains(lower, "too short") \/ Contains(lower, "too long") THEN 20
        ELSE IF Contains(lower, "missing") THEN 15
        ELSE 10

RECURSIVE Deductions(_)
Deductions(issues) ==
    IF Len(issues) = 0 THEN 0 ELSE Deduction(Head(issues)) + Deductions(Tail(issues))

Min2(a, b) == IF a <= b THEN a ELSE b
Max2(a, b) == IF a >= b THEN a ELSE b

\* word_count of _calculate_quality_score in the sweet spot
BonusFor(word_count) == IF 100 <= word_count /\ word_count <= 500 THEN 5 ELSE 0
LengthBonus(prompt) == BonusFor(WordCount(prompt))

\* CalculateQualityScore without the lower clamp
CalculateQualityScoreNoFloor(prompt, issues) ==
    Min2(100, 100 - Deductions(issues) + LengthBonus(prompt))

CalculateQualityScore(prompt, issues) ==
    LET base_score == 100 - Deductions(issues) + LengthBonus(prompt)
    IN  Max2(0, Min2(100, base_score))

TooShortIssue(min) == "Prompt is too short (minimum " \o ToString(min) \o " characters)"
TooLongIssue(max) == "Prompt is too long (maximum " \o ToString(max) \o " characters)"
MissingIssue(element) == "Missing required element: " \o element

RECURSIVE MissingElementsExactCase(_, _)
\* MissingElements comparing without lower()
MissingElementsExactCase(elements, prompt) ==
    IF Len(elements) = 0 THEN <<>>
    ELSE (IF ~Contains(prompt, Head(elements))
          THEN <<MissingIssue(Head(elements))>> ELSE <<>>)
         \o MissingElementsExactCase(Tail(elements), prompt)

RECURSIVE MissingElements(_, _)
\* the loop over self.required_elements
MissingElements(elements, prompt) ==
    IF Len(elements) = 0 THEN <<>>
    ELSE (IF ~Contains(Lower(prompt), Lower(Head(elements)))
          THEN <<MissingIssue(Head(elements))>> ELSE <<>>)
         \o MissingElements(Tail(elements), prompt)

\* ValidateIssues with the minimum off by one
ValidateIssuesOffByOne(min, max, elements, prompt) ==
    (IF Len(prompt) < min - 1 THEN <<TooShortIssue(min)>> ELSE <<>>)
    \o (IF Len(prompt) > max THEN <<TooLongIssue(max)>> ELSE <<>>)
    \o MissingElements(elements, prompt)

ValidateIssues(min, max, elements, prompt) ==
    (IF Len(prompt) < min THEN <<TooShortIssue(min)>> ELSE <<>>)
    \o (IF Len(prompt) > max THEN <<TooLongIssue(max)>> ELSE <<>>)
    \o MissingElements(elements, prompt)

ValidateSuggestions(max, prompt) ==
    (IF Len(prompt) > max
     THEN <<"Consider breaking into multiple prompts or summarizing">> ELSE <<>>)
    \o (IF IsTooVague(prompt)
        THEN <<"Consider adding more specific details or examples">> ELSE <<>>)
    \o CheckBestPractices(prompt)

IsValid(issues) == Len(issues) = 0

\* Validate with suggestions counted against validity
ValidateCountingSuggestions(min, max, elements, prompt) ==
    LET found == ValidateIssues(min, max, elements, prompt)
        suggestions == ValidateSuggestions(max, prompt)
    IN  [is_valid |-> Len(found) = 0 /\ Len(suggestions) = 0,
         issues |-> found,
         suggestions |-> suggestions,
         score |-> CalculateQualityScore(prompt, found)]

\* validate(prompt) of a validator with the fields min, max and elements
Validate(min, max, elements, prompt) ==
    LET issues == ValidateIssues(min, max, elements, prompt)
        suggestions == ValidateSuggestions(max, prompt)
    IN  [is_valid |-> IsValid(issues),
         issues |-> issues,
         suggestions |-> suggestions,
         score |-> CalculateQualityScore(prompt, issues)]

(***************************************************************************)
(* Settings (config/settings.py): the environment, read once at import.    *)
(***************************************************************************)
Digits == "0123456789"

DigitValue(c) == (CHOOSE k \in 1..10 : At(Digits, k) = c) - 1

RECURSIVE IntOf(_)
\* int(s) for a string of decimal digits
IntOf(s) ==
    IF Len(s) = 0 THEN 0
    ELSE 10 * IntOf(SubSeq(s, 1, Len(s) - 1)) + DigitValue(At(s, Len(s)))

\* os.getenv(name, default) in the environment env, a record of the set names
GetEnv(env, name, default) == IF name \in DOMAIN env THEN env[name] ELSE default

\* Settings.to_dict() in the environment env
SettingsToDict(env) ==
    [max_prompt_length |-> IntOf(GetEnv(env, "MAX_PROMPT_LENGTH", "4000")),
     min_prompt_length |-> IntOf(GetEnv(env, "MIN_PROMPT_LENGTH", "10")),
     prefer_structured |-> Lower(GetEnv(env, "PREFER_STRUCTURED", "true")) = "true",
     include_examples |-> Lower(GetEnv(env, "INCLUDE_EXAMPLES", "true")) = "true",
     output_format |-> GetEnv(env, "OUTPUT_FORMAT", "markdown")]

(***************************************************************************)
(* The inputs of the model.                                                *)
(***************************************************************************)
\* the environments a caller builds its configuration from: nothing set, and
\* both length bounds set
Environments ==
    {[OUTPUT_FORMAT |-> "markdown"],
     [MIN_PROMPT_LENGTH |-> "150", MAX_PROMPT_LENGTH |-> "200"]}

\* the argument of PromptOptimizer(config): None is {} and a dict d is {d}
None == {}
Configs == {{SettingsToDict(env)} : env \in Environments}

\* the phrases the generated input texts are made of
Phrases ==
    <<"Write me", "a story", "explain loops", "it should be fast,",
      "for a beginner,", "in json.">>

\* the largest number of phrases of a generated text
MaxPhrases == 2

\* the number of repetitions of the filler of the long text
LongReps == 340

RECURSIVE Rep(_, _)
\* s * n
Rep(s, n) ==
    IF n = 0 THEN ""
    ELSE IF n = 1 THEN s
    ELSE Rep(s, n \div 2) \o Rep(s, n - n \div 2)

PhraseTexts ==
    UNION {{Join([k \in 1..n |-> Phrases[f[k]]], " ") : f \in [1..n -> 1..Len(Phrases)]}
              : n \in 0..MaxPhrases}

\* text3 of examples/example_usage.py
ReportText ==
    "Create a data analysis report that should include charts and must be in markdown format"

\* the texts of examples/example_usage.py and of the tests
ExampleTexts ==
    {"Write me a story about a robot",
     "Given that I'm a beginner in Python, explain how to use loops",
     ReportText,
     "Write a short story about time travel that includes a plot twist",
     "Write code that should be efficient and must include error handling",
     "Explain quantum physics"}

EdgeTexts ==
    {"   ", " \n\t ", "hi", "make me", "Task list", "write  .\nx", "PLAN a trip",
     "Create a plan for a story", "I need you to explain how to write tests",
     "For a pro, as a beginner, explain loops",
     "it should x, it must y. this need be z",
     "Write a report in json for a beginner, it should be short."}

LongText == Rep("lorem ipsum ", LongReps)

Texts == PhraseTexts \cup ExampleTexts \cup EdgeTexts \cup {LongText}

\* prompts handed to validate directly: every prefix of a short prompt, a
\* question, prompts of WordyWords words within and beyond the maximum length
ShortPrompt == "Task: do it now."
WordyWords == 120

\* prompts handed to _calculate_quality_score: short, of WordyWords words
\* within and beyond the maximum length, and long with more than 500 words
ScorePrompts ==
    {"Task", Rep("word ", WordyWords),
     Rep("abcdefghijklmnopqrstuvwxyz0123456789 ", WordyWords), LongText}

GivenPrompts ==
    {Slice(ShortPrompt, 1, n) : n \in 0..Len(ShortPrompt)}
    \cup {"Do what? Why? How", "a step and a sample. Task",
          Rep("task ", WordyWords - 30)}
    \cup ScorePrompts

\* the largest number of issues of a list handed to _calculate_quality_score
MaxIssues == 2
\* the longest list of equal issues handed to it
MaxSameIssues == 6

IssuePool(min, max) ==
    {TooShortIssue(min), TooLongIssue(max), MissingIssue("Task"), "Unclear wording"}

RECURSIVE SeqsUpTo(_, _)
SeqsUpTo(S, n) ==
    IF n = 0 THEN {<<>>}
    ELSE LET shorter == SeqsUpTo(S, n - 1)
         IN  shorter \cup {Append(q, e) : q \in shorter, e \in S}

IssueLists(min, max) ==
    SeqsUpTo(IssuePool(min, max), MaxIssues)
    \cup {[k \in 1..n |-> e] : n \in 0..MaxSameIssues, e \in IssuePool(min, max)}

(***************************************************************************)
(* The state: the fields of one PromptOptimizer, its parser and its        *)
(* validator, and the call in progress on them.                            *)
(***************************************************************************)
VARIABLES
    config,                \* PromptOptimizer.config
    intent_patterns,       \* NaturalLanguageParser.intent_patterns
    requirement_keywords,  \* NaturalLanguageParser.requirement_keywords
    min_length,            \* PromptValidator.min_length
    max_length,            \* PromptValidator.max_length
    required_elements,     \* PromptValidator.required_elements
    op,                    \* the call that has just returned, "idle" if none
    text,                  \* the argument of parse or optimize
    parsed,                \* the record parse returned
    prompt,                \* the prompt built, validated or scored
    report,                \* the report validate returned
    issues,                \* the issues handed to _calculate_quality_score
    score,                 \* the score it returned
    result,                \* the string optimize returned
    warnings,              \* what optimize logged at level WARNING
    earlier,               \* an earlier _build_prompt call, kept by the caller
    pc,                    \* the position of run_interactive.main
    user_input,            \* user_input of run_interactive.main
    printed,               \* what main printed since it last called input
    raised                 \* the exception of its last iteration, "" if none

fields == <<config, intent_patterns, requirement_keywords,
            min_length, max_length, required_elements>>
locals == <<op, text, parsed, prompt, report, issues, score, result, warnings>>
session == <<earlier, pc, user_input, printed, raised>>
vars == <<fields, locals, session>>

NoRecord ==
    [intent |-> "", context |-> "", requirements |-> <<>>,
     output_format |-> "", original_text |-> ""]
NoReport == [is_valid |-> TRUE, issues |-> <<>>, suggestions |-> <<>>, score |-> 0]

Idle ==
    /\ op = "idle"
    /\ text = ""
    /\ parsed = NoRecord
    /\ prompt = ""
    /\ report = NoReport
    /\ issues = <<>>
    /\ score = 0
    /\ result = ""
    /\ warnings = <<>>

\* the bounds PromptValidator.__init__ sets
MinLength == 10
MaxLength == 4000

EmptyDict == [k \in {} |-> 0]
\* config or {}
ConfigOrEmpty(arg) == IF arg = None THEN EmptyDict ELSE CHOOSE d \in arg : TRUE

\* the fields after PromptOptimizer(arg): __init__ builds a parser and a
\* validator without arguments and keeps the configuration
Constructed(arg) ==
    /\ intent_patterns = IntentPatterns
    /\ requirement_keywords = RequirementKeywords
    /\ min_length = MinLength
    /\ max_length = MaxLength
    /\ required_elements = <<"Task">>
    /\ config = ConfigOrEmpty(arg)

\* no call kept, and run_interactive.main not running
NoEarlier == [record |-> NoRecord, prompt |-> "", config |-> EmptyDict, op |-> "idle"]
NoSession ==
    /\ earlier = NoEarlier
    /\ pc = "off"
    /\ user_input = ""
    /\ printed = <<>>
    /\ raised = ""

\* PromptOptimizer(), as main.py and run_interactive.py construct it
Init == Constructed(None) /\ Idle /\ NoSession

\* parser.parse(t)
ParseCall(t) ==
    /\ op = "idle"
    /\ parsed' \in ParseResults(intent_patterns, requirement_keywords, t)
    /\ op' = "parse"
    /\ text' = t
    /\ UNCHANGED <<fields, prompt, report, issues, score, result, warnings>>

\* BuildCall filling an unspecified output format from the configuration
BuildCallUsingConfig ==
    /\ op = "parse"
    /\ prompt' = BuildPrompt(
                     IF parsed.output_format = "" /\ "output_format" \in DOMAIN config
                     THEN [parsed EXCEPT !.output_format = config.output_format]
                     ELSE parsed)
    /\ op' = "build"
    /\ UNCHANGED <<fields, text, parsed, report, issues, score, result, warnings>>

\* optimizer._build_prompt(parsed) on the record parse returned
BuildCall ==
    /\ op = "parse"
    /\ prompt' = BuildPrompt(parsed)
    /\ op' = "build"
    /\ UNCHANGED <<fields, text, parsed, report, issues, score, result, warnings>>

\* validator.validate(p), on the prompt just built or on a given one
ValidateCall(p) ==
    /\ op \in {"idle", "build"}
    /\ prompt' = p
    /\ report' = Validate(min_length, max_length, required_elements, p)
    /\ op' = "validate"
    /\ UNCHANGED <<fields, text, parsed, issues, score, result, warnings>>

\* validator._calculate_quality_score(p, iss)
ScoreCall(p, iss) ==
    /\ op = "idle"
    /\ prompt' = p
    /\ issues' = iss
    /\ score' = CalculateQualityScore(p, iss)
    /\ op' = "score"
    /\ UNCHANGED <<fields, text, parsed, report, result, warnings>>

RECURSIVE ReprItems(_)
ReprItems(items) ==
    IF Len(items) = 0 THEN <<>> ELSE <<"'" \o Head(items) \o "'">> \o ReprItems(Tail(items))

\* f"Validation issues: {items}" for a list of strings without quotes
WarningLine(items) == "Validation issues: [" \o Join(ReprItems(items), ", ") \o "]"

\* OptimizeResult withholding a prompt that failed validation
OptimizeResultWithheld(optimized_prompt, validation_result) ==
    IF validation_result.is_valid THEN optimized_prompt ELSE ""

\* what optimize returns, given the prompt it built and the report on it
OptimizeResult(optimized_prompt, validation_result) == optimized_prompt

\* the body of optimize(t)
Optimize(t) ==
    /\ \E parsed_data \in ParseResults(intent_patterns, requirement_keywords, t) :
           /\ parsed' = parsed_data
           /\ prompt' = BuildPrompt(parsed_data)
           /\ report' = Validate(min_length, max_length, required_elements, prompt')
           /\ warnings' = IF ~report'.is_valid
                          THEN <<WarningLine(report'.issues)>>
                          ELSE <<>>
           /\ result' = OptimizeResult(prompt', report')
    /\ op' = "optimize"
    /\ text' = t
    /\ UNCHANGED <<fields, issues, score>>

\* optimizer.optimize(t)
OptimizeCall(t) == op = "idle" /\ Optimize(t)

\* the caller drops what the call returned
Return ==
    /\ op # "idle"
    /\ op' = "idle"
    /\ text' = ""
    /\ parsed' = NoRecord
    /\ prompt' = ""
    /\ report' = NoReport
    /\ issues' = <<>>
    /\ score' = 0
    /\ result' = ""
    /\ warnings' = <<>>
    /\ UNCHANGED fields

Next ==
    \/ (\E t \in Texts : ParseCall(t)) /\ UNCHANGED session
    \/ BuildCall /\ UNCHANGED session
    \/ op = "build" /\ ValidateCall(prompt) /\ UNCHANGED session
    \/ op = "idle" /\ (\E p \in GivenPrompts : ValidateCall(p)) /\ UNCHANGED session
    \/ op = "idle" /\ UNCHANGED session
                   /\ \E p \in ScorePrompts :
                        \E iss \in IssueLists(min_length, max_length) : ScoreCall(p, iss)
    \/ (\E t \in Texts : OptimizeCall(t)) /\ UNCHANGED session
    \/ Return /\ UNCHANGED session

Spec == Init /\ [][Next]_vars

(***************************************************************************)
(* The optimizer constructed with a configuration a caller took from       *)
(* Settings.to_dict().                                                     *)
(***************************************************************************)
ConfiguredTexts == ExampleTexts \cup EdgeTexts

InitConfigured == \E arg \in Configs : Constructed(arg) /\ Idle /\ NoSession

NextConfigured ==
    \/ op = "idle" /\ (\E p \in GivenPrompts : ValidateCall(p)) /\ UNCHANGED session
    \/ (\E t \in ConfiguredTexts : OptimizeCall(t)) /\ UNCHANGED session
    \/ Return /\ UNCHANGED session

SpecConfigured == InitConfigured /\ [][NextConfigured]_vars

(***************************************************************************)
(* Several optimizers, one after another, and a caller that keeps the      *)
(* record and the prompt of an earlier _build_prompt call to compare a     *)
(* later call with.                                                        *)
(***************************************************************************)
\* texts with and without requirements, a text twice with other blanks
\* around it, and texts without an output format
HistoryTexts ==
    {"Write me a story about a robot", "  Write me a story about a robot\n",
     "it should x, it must y.", "hi", "Explain quantum physics", ReportText}

InitHistory == Init

\* PromptOptimizer(arg) constructed in place of the optimizer in use
NewInstance(arg) ==
    /\ op = "idle"
    /\ config # ConfigOrEmpty(arg)
    /\ intent_patterns' = IntentPatterns
    /\ requirement_keywords' = RequirementKeywords
    /\ min_length' = MinLength
    /\ max_length' = MaxLength
    /\ required_elements' = <<"Task">>
    /\ config' = ConfigOrEmpty(arg)
    /\ UNCHANGED locals

\* the call returns, and the caller keeps its record and its prompt if it
\* built one
Keep ==
    /\ Return
    /\ earlier' = IF op \in {"build", "optimize"}
                  THEN [record |-> parsed, prompt |-> prompt, config |-> config, op |-> op]
                  ELSE earlier
    /\ UNCHANGED <<pc, user_input, printed, raised>>

NextHistory ==
    \/ (\E arg \in Configs \cup {None} : NewInstance(arg)) /\ UNCHANGED session
    \/ (\E t \in HistoryTexts : ParseCall(t)) /\ UNCHANGED session
    \/ BuildCall /\ UNCHANGED session
    \/ op = "build" /\ ValidateCall(prompt) /\ UNCHANGED session
    \/ (\E t \in HistoryTexts : OptimizeCall(t)) /\ UNCHANGED session
    \/ Keep

SpecHistory == InitHistory /\ [][NextHistory]_vars

(***************************************************************************)
(* run_interactive.main: one optimizer and a loop that reads a line,       *)
(* optimizes it and prints the prompt.                                     *)
(***************************************************************************)
Bar == Rep("=", 60)

\* what main prints before the loop
Banner ==
    <<Bar, "ChatGPT Prompt Optimization Agent - Interactive Mode", Bar,
      "Enter your natural language prompts to get optimized versions.",
      "Type 'quit', 'exit', or 'q' to stop.\n">>

QuitWords == {"quit", "exit", "q"}

\* IsQuit comparing the line as it was typed
IsQuitExactCase(line) == line \in QuitWords

\* user_input.lower() in ['quit', 'exit', 'q']
IsQuit(line) == Lower(line) \in QuitWords

\* the lines input() returns: blank ones, the words that end the loop in
\* several letter cases and with blanks around, and prompts
InputLines ==
    {"", "   ", "\t", "quit", "QUIT", " Exit ", "q", " Q", "eXiT",
     "quit now", "hi", "Write me a story about a robot",
     "Explain quantum physics", "it should x, it must y."}

\* str(e) of the exceptions that input() and the processing can raise
Message(exception) ==
    IF exception = "EOFError" THEN "EOF when reading a line" ELSE ""

\* print(f"\nError: {e}\n")
ErrorLine(exception) == "\nError: " \o Message(exception) \o "\n"

\* the prints around the optimized prompt
Heading == <<"\n" \o Bar, "OPTIMIZED PROMPT:", Bar>>
Shown(optimized) == <<"\nProcessing...">> \o Heading \o <<optimized, Bar \o "\n">>

\* where the processing of a line can fail: nowhere, a MemoryError in
\* optimize or in print(optimized), a KeyboardInterrupt in optimize
Faults == {"", "optimize", "print", "interrupt"}

InitInteractive ==
    /\ Constructed(None)
    /\ Idle
    /\ earlier = NoEarlier
    /\ pc = "loop"
    /\ user_input = ""
    /\ printed = Banner
    /\ raised = ""

\* an iteration in which input() raises exception
InputRaises(exception) ==
    /\ pc = "loop"
    /\ raised' = exception
    /\ IF exception = "KeyboardInterrupt"
       THEN printed' = <<"\n\nGoodbye!">> /\ pc' = "done"
       ELSE printed' = <<ErrorLine(exception)>> /\ pc' = "loop"
    /\ UNCHANGED <<fields, locals, earlier, user_input>>

\* an iteration in which input() returns line and the processing fails at
\* fault
Iterate(line, fault) ==
    /\ pc = "loop"
    /\ user_input' = Strip(line)
    /\ IF user_input' = ""
       THEN /\ fault = ""
            /\ printed' = <<>>
            /\ raised' = ""
            /\ pc' = "loop"
            /\ UNCHANGED <<fields, locals>>
       ELSE IF IsQuit(user_input')
       THEN /\ fault = ""
            /\ printed' = <<"\nGoodbye!">>
            /\ raised' = ""
            /\ pc' = "done"
            /\ UNCHANGED <<fields, locals>>
       ELSE IF fault = ""
       THEN /\ Optimize(user_input')
            /\ printed' = Shown(result')
            /\ raised' = ""
            /\ pc' = "loop"
       ELSE IF fault = "optimize"
       THEN /\ printed' = <<"\nProcessing...", ErrorLine("MemoryError")>>
            /\ raised' = "MemoryError"
            /\ pc' = "loop"
            /\ UNCHANGED <<fields, locals>>
       ELSE IF fault = "print"
       THEN /\ Optimize(user_input')
            /\ printed' = <<"\nProcessing...">> \o Heading \o <<ErrorLine("MemoryError")>>
            /\ raised' = "MemoryError"
            /\ pc' = "loop"
       ELSE /\ printed' = <<"\nProcessing...", "\n\nGoodbye!">>
            /\ raised' = "KeyboardInterrupt"
            /\ pc' = "done"
            /\ UNCHANGED <<fields, locals>>
    /\ UNCHANGED earlier

NextInteractive ==
    \/ \E exception \in {"EOFError", "KeyboardInterrupt"} : InputRaises(exception)
    \/ \E line \in InputLines : \E fault \in Faults : Iterate(line, fault)

SpecInteractive == InitInteractive /\ [][NextInteractive]_vars

(***************************************************************************)
(* The claims.                                                             *)
(***************************************************************************)
ParseReturned == op \in {"parse", "optimize"}
PromptBuilt == op \in {"build", "optimize"}
Validated == op \in {"validate", "optimize"}

\* some issue of the list contains the words w
SomeIssueHas(list, w) == \E k \in 1..Len(list) : Contains(list[k], w)

\* C1: whatever the input text, empty and blank ones included, the
\* record parse returns has a non-empty intent.
C1_IntentNeverEmpty == ParseReturned => parsed.intent # ""

\* C2 as stated: every built prompt contains the case-sensitive literal
\* "Task", whichever branch the main instruction takes.
C2_PromptHasLiteralTask == PromptBuilt => Contains(prompt, "Task")

\* C2, amended: every built prompt contains "task" in some letter case: the
\* line "Task: {intent}." when the original text is at most 10 characters
\* longer than the intent, and the heading "Please complete the following
\* task:" in lower case otherwise.
C2_PromptNamesTaskInSomeCase ==
    PromptBuilt =>
        /\ Contains(Lower(prompt), "task")
        /\ IF Len(parsed.original_text) > Len(parsed.intent) + 10
           THEN Contains(prompt, "\nPlease complete the following task:\n")
           ELSE Contains(prompt, "\nTask: " \o parsed.intent \o ".\n")

\* a prompt of the quoted branch in which "Task" does not occur
C2_Witness ==
    /\ op = "build"
    /\ Len(parsed.original_text) > Len(parsed.intent) + 10
    /\ ~Contains(prompt, "Task")
    /\ Contains(prompt, "following task:")

LengthIssues == {TooShortIssue(min_length), TooLongIssue(max_length)}

\* C3 as stated: adding one more length issue to any list of issues of any
\* prompt lowers the quality score by exactly 20.
C3_LengthIssueTakesTwenty ==
    op = "score" =>
        \A more \in LengthIssues :
            CalculateQualityScore(prompt, Append(issues, more)) = score - 20

\* C3, amended: adding one more length issue never raises the score; it
\* lowers it by exactly 20 when the score before clamping lies in 20..100,
\* and by less than 20 when that score is above 100 (the word bonus) or
\* below 20 (the clamp at 0).
C3_LengthIssueNeverRaises ==
    op = "score" =>
        \A more \in LengthIssues :
            LET after == CalculateQualityScore(prompt, Append(issues, more))
                unclamped == 100 - Deductions(issues) + LengthBonus(prompt)
            IN  /\ after <= score
                /\ unclamped \in 20..100 => after = score - 20
                /\ unclamped \notin 20..100 => score - after < 20

\* a list of six length issues, whose score is 0 with or without one more
C3_Witness ==
    /\ op = "score"
    /\ Len(issues) = 6
    /\ score = 0
    /\ \A k \in 1..6 : issues[k] \in LengthIssues

\* C4: for text3 of the examples, parse returns a requirement that mentions
\* "charts".
C4_ChartsIsARequirement ==
    (ParseReturned /\ text = ReportText) =>
        \E k \in 1..Len(parsed.requirements) :
            Contains(Lower(parsed.requirements[k]), "charts")

\* C5: the validator of an optimizer constructed with a configuration applies
\* the configured minimum and maximum prompt lengths.
C5_ConfiguredBoundsApply ==
    Validated =>
        /\ SomeIssueHas(report.issues, "too short") <=> Len(prompt) < config.min_prompt_length
        /\ SomeIssueHas(report.issues, "too long") <=> Len(prompt) > config.max_prompt_length

\* C6: optimize(text) returns the string _build_prompt makes of a record
\* parse(text) returns, whether the report on it is valid or not.
C6_OptimizeReturnsBuiltPrompt ==
    op = "optimize" =>
        /\ parsed \in ParseResults(intent_patterns, requirement_keywords, text)
        /\ result = BuildPrompt(parsed)

\* optimize has returned a prompt whose report is invalid, and logged it
C6_Witness ==
    /\ op = "optimize"
    /\ ~report.is_valid
    /\ warnings # <<>>
    /\ result = prompt
    /\ Len(result) > max_length

\* C7: the prompt optimize composes is non-empty, at least 10 characters long
\* and contains "task" in some letter case; its report has neither the "too
\* short" nor the "Missing required element: Task" issue, and is invalid only
\* when the prompt is longer than 4000 characters.
C7_ComposedPromptFailsOnlyByLength ==
    op = "optimize" =>
        /\ prompt # ""
        /\ Len(prompt) >= 10
        /\ Contains(Lower(prompt), "task")
        /\ ~SomeIssueHas(report.issues, "too short")
        /\ ~SomeIssueHas(report.issues, "Missing required element: Task")
        /\ ~report.is_valid => Len(prompt) > 4000

\* optimize has composed a prompt in lower-case "task" only, and it is valid
C7_Witness ==
    /\ op = "optimize"
    /\ ~Contains(prompt, "Task")
    /\ report.is_valid
    /\ report.issues = <<>>

\* C8: for a prompt shorter than 10 characters, validate reports a "too
\* short" issue, is_valid is false and the score is at most 80.
C8_ShortPromptIsInvalid ==
    (op = "validate" /\ Len(prompt) < 10) =>
        /\ SomeIssueHas(report.issues, "too short")
        /\ ~report.is_valid
        /\ report.score <= 80

\* validate has reported on a prompt of 3 characters
C8_Witness ==
    /\ op = "validate"
    /\ Len(prompt) = 3
    /\ report.issues = <<TooShortIssue(10), MissingIssue("Task")>>
    /\ report.score = 65

\* the number of issues of the list that start with one of the openings
StartingWith(list, openings) ==
    Cardinality({k \in 1..Len(list) : \E w \in openings : StartsAt(list[k], 1, w)})

\* C9: the score of validate is 100, less 20 for each length issue, 15 for
\* each missing-element issue and 10 for each other issue, plus 5 when the
\* prompt has 100 to 500 words, clamped to 0..100.
C9_ScoreIsClampedSum ==
    Validated =>
        LET n_length == StartingWith(report.issues, {"Prompt is too short", "Prompt is too long"})
            n_missing == StartingWith(report.issues, {"Missing required element"})
            n_other == Len(report.issues) - n_length - n_missing
            bonus == IF WordCount(prompt) \in 100..500 THEN 5 ELSE 0
            sum == 100 - 20 * n_length - 15 * n_missing - 10 * n_other + bonus
        IN  /\ report.score = (IF sum < 0 THEN 0 ELSE IF sum > 100 THEN 100 ELSE sum)
            /\ report.score \in 0..100

\* validate has scored a prompt with both kinds of issue and the word bonus
C9_Witness ==
    /\ op = "validate"
    /\ Len(report.issues) = 2
    /\ WordCount(prompt) \in 100..500
    /\ report.score = 70

\* C10: is_valid is true exactly when the list of issues is empty, whatever
\* the suggestions are.
C10_ValidIffNoIssues == Validated => (report.is_valid <=> report.issues = <<>>)

\* a valid report that carries suggestions
C10_Witness ==
    /\ op = "validate"
    /\ report.is_valid
    /\ Len(report.suggestions) >= 2

\* C11: the requirements parse returns are pairwise different strings,
\* also when the patterns collected a string several times.
C11_RequirementsAreDistinct ==
    ParseReturned =>
        \A i, j \in 1..Len(parsed.requirements) :
            i # j => parsed.requirements[i] # parsed.requirements[j]

\* parse has returned several requirements that the keyword loop had
\* collected once for each keyword
C11_Witness ==
    /\ op = "parse"
    /\ Len(parsed.requirements) = 4
    /\ Len(CollectRequirements(requirement_keywords, Strip(text)))
          = 3 * Len(requirement_keywords) + 1

\* C12: a _build_prompt call on a record equal to the record of an earlier
\* call returns the string the earlier call returned, on the same or on
\* another optimizer and whatever was called in between; and the pattern
\* list, the keyword list and the bounds are those set at construction.
C12_BuildIsDeterministic ==
    /\ intent_patterns = IntentPatterns
    /\ requirement_keywords = RequirementKeywords
    /\ min_length = MinLength
    /\ max_length = MaxLength
    /\ (PromptBuilt /\ earlier # NoEarlier /\ earlier.record = parsed)
           => prompt = earlier.prompt

\* _build_prompt has returned, on an optimizer with another configuration,
\* the prompt an earlier optimize had built of the same record
C12_Witness ==
    /\ op = "build"
    /\ earlier.op = "optimize"
    /\ earlier.config # config
    /\ earlier.record = parsed
    /\ Len(parsed.requirements) = 2
    /\ prompt = earlier.prompt

\* main has gone through its loop at least once
Iterated == pc \in {"loop", "done"} /\ printed # Banner

\* C13: an iteration of the interactive loop has one outcome, decided by
\* what was read: a blank line prints nothing and the loop goes on; quit,
\* exit or q in any letter case ends it; any other line is optimized and
\* its prompt printed; an exception other than KeyboardInterrupt prints an
\* error and the loop goes on. The loop is over only after one of the three
\* words or a KeyboardInterrupt.
C13_EveryReadHasOneOutcome ==
    Iterated =>
        LET word == Lower(user_input) \in QuitWords
        IN  /\ (raised = "" /\ user_input = "") => (pc = "loop" /\ printed = <<>>)
            /\ (raised = "" /\ word) => (pc = "done" /\ printed = <<"\nGoodbye!">>)
            /\ (raised = "" /\ user_input # "" /\ ~word) =>
                   /\ pc = "loop"
                   /\ op = "optimize" /\ text = user_input
                   /\ result = BuildPrompt(parsed)
                   /\ printed = Shown(result)
            /\ raised \notin {"", "KeyboardInterrupt"} =>
                   /\ pc = "loop"
                   /\ StartsAt(printed[Len(printed)], 1, "\nError: ")
            /\ pc = "done" <=> (raised = "KeyboardInterrupt" \/ (raised = "" /\ word))

\* the loop goes on after a read that failed, a prompt of an earlier
\* iteration having been printed
C13_Witness ==
    /\ pc = "loop"
    /\ raised = "EOFError"
    /\ printed = <<"\nError: EOF when reading a line\n">>
    /\ op = "optimize"
    /\ user_input = "hi"

\* the position of the first occurrence of w in s, 0 if there is none
Index(s, w) ==
    LET hits == {i \in 1..(Len(s) - Len(w) + 1) : StartsAt(s, i, w)}
    IN  IF hits = {} THEN 0 ELSE SetMin(hits)

\* the positions in s of the openings of the seven sections, in the order
\* role, main instruction, context, requirements, steps, format, closing
SectionsAt(s) ==
    <<Index(s, "You are "),
      IF Index(s, "\nTask: ") > 0 THEN Index(s, "\nTask: ")
      ELSE Index(s, "\nPlease complete the following task:\n\n\"\"\""),
      Index(s, "\n\nContext:\n\"\"\""),
      Index(s, "\n\nRequirements:\n- "),
      Index(s, "\n\nPlease follow these steps:\n1. "),
      Index(s, "\n\nOutput Format: Provide your response in "),
      Index(s, "\n\nPlease be specific, clear, and comprehensive in your response.")>>

\* C14: in a composed prompt the sections that are present come in the
\* order role, main instruction, Context, Requirements, steps, Output
\* Format, closing directive; the role line opens the prompt and the closing
\* directive ends it; the Context block is there exactly when the context is
\* not empty and the Requirements block exactly when there is a requirement,
\* with one bullet for each requirement in the order of the list.
C14_SectionsInFixedOrder ==
    PromptBuilt =>
        LET at == SectionsAt(prompt)
            closing == "\n\nPlease be specific, clear, and comprehensive in your response."
        IN  /\ at[1] = 1
            /\ at[2] > 1
            /\ at[7] = Len(prompt) - Len(closing) + 1
            /\ \A i, j \in 1..7 : (i < j /\ at[i] > 0 /\ at[j] > 0) => at[i] < at[j]
            /\ at[3] > 0 <=> parsed.context # ""
            /\ at[3] > 0 => StartsAt(prompt, at[3],
                                    "\n\nContext:\n\"\"\"" \o parsed.context \o "\"\"\"\n")
            /\ at[4] > 0 <=> parsed.requirements # <<>>
            /\ at[4] > 0 => StartsAt(prompt, at[4],
                                    "\n\nRequirements:\n"
                                        \o Join([k \in 1..Len(parsed.requirements) |->
                                                    "- " \o parsed.requirements[k] \o "\n"], ""))

\* a composed prompt with all seven sections and two requirements
C14_Witness ==
    /\ op = "build"
    /\ \A i \in 1..7 : SectionsAt(prompt)[i] > 0
    /\ Len(parsed.requirements) = 2
    /\ parsed.context = "beginner"

\* the categories of steps in their order of priority: the words that select
\* the category and its three steps; the last one is the generic category
StepCategories ==
    << <<{"write", "story"},
         <<"Plan the structure and key elements",
           "Develop the content with clear narrative",
           "Review and refine for clarity and engagement">> >>,
       <<{"analyze", "report"},
         <<"Identify key data points and information",
           "Analyze patterns and relationships",
           "Present findings in a clear, structured format">> >>,
       <<{"explain"},
         <<"Break down the concept into understandable parts",
           "Provide examples and analogies",
           "Summarize key takeaways">> >>,
       <<{"create", "build"},
         <<"Define the requirements and scope",
           "Design the approach or structure",
           "Implement the solution step by step">> >>,
       <<{""},
         <<"Understand the requirements",
           "Break down into manageable components",
           "Execute systematically">> >> >>

\* C15: the steps block is in the composed prompt exactly when the intent
\* contains, in any letter case, one of the complexity-indicator words or
\* there are at least 2 requirements; it then has exactly the three steps
\* of the first category, in the order write/story, analyze/report,
\* explain, create/build, generic, one of whose words the intent contains.
C15_StepsOnlyForComplexTasks ==
    PromptBuilt =>
        LET low == Lower(parsed.intent)
            indicator == \E w \in {"analyze", "create", "build", "develop", "design", "write",
                                    "report", "plan", "explain", "compare", "evaluate"} :
                            Contains(low, w)
            first == SetMin({c \in 1..5 : \E w \in StepCategories[c][1] : Contains(low, w)})
            steps == StepCategories[first][2]
            block == "\n\nPlease follow these steps:\n1. " \o steps[1]
                         \o "\n2. " \o steps[2] \o "\n3. " \o steps[3] \o "\n\n"
        IN  IF indicator \/ Len(parsed.requirements) >= 2
            THEN Contains(prompt, block)
            ELSE ~Contains(prompt, "Please follow these steps:")

\* an intent without an indicator word and with several requirements has
\* got the generic steps
C15_Witness ==
    /\ op = "build"
    /\ parsed.intent = "be z"
    /\ Len(parsed.requirements) = 4
    /\ Contains(prompt, "steps:\n1. Understand the requirements\n2. Break")

\* C16: the role is that of the first keyword, in the order story, write,
\* explain, analyze, code, design, plan, report, create of the mapping, that
\* the lower-cased intent contains, wherever it is in the intent, and "an
\* expert assistant" when it contains none; the composed prompt opens with
\* the line "You are {role}.".
C16_RoleOfFirstDeclaredKeyword ==
    /\ [k \in 1..Len(RoleMappings) |-> RoleMappings[k][1]]
          = <<"story", "write", "explain", "analyze", "code",
              "design", "plan", "report", "create">>
    /\ PromptBuilt =>
           LET low == Lower(parsed.intent)
               found == {k \in 1..Len(RoleMappings) : Contains(low, RoleMappings[k][1])}
               role == IF found = {} THEN "an expert assistant"
                       ELSE RoleMappings[SetMin(found)][2]
           IN  /\ StartsAt(prompt, 1, "You are " \o role \o ".\n")
               /\ Contains(low, "story") => role = "an expert creative writer"

\* the intent names a plan ahead of a story, and the role is the story's
C16_Witness ==
    /\ op = "build"
    /\ parsed.intent = "plan for a story"
    /\ StartsAt(prompt, 1, "You are an expert creative writer.\nTask: plan for a story.\n")

\* C17: the intent comes from the first template, in the order of the list,
\* that matches the lower-cased text, wherever the templates match: it is
\* the capture of that template after the clean-up of _extract_intent, and
\* never the whole text; when no template matches, the intent is the whole
\* trimmed text.
C17_FirstTemplateWins ==
    ParseReturned =>
        LET trimmed == Strip(text)
            low == Lower(trimmed)
            matching == {k \in 1..Len(intent_patterns) : Search(intent_patterns[k], low).ok}
        IN  IF matching = {} THEN parsed.intent = trimmed
            ELSE LET m == Search(intent_patterns[SetMin(matching)], low)
                 IN  /\ parsed.intent = CleanIntent(Group1(low, m), low)
                     /\ parsed.intent # trimmed

\* the first template has supplied the intent of a text that the second and
\* the fourth template match further to the left
C17_Witness ==
    /\ op = "parse"
    /\ text = "I need you to explain how to write tests"
    /\ parsed.intent = "tests"
    /\ Search(intent_patterns[4], Lower(text)).g[1] < Search(intent_patterns[1], Lower(text)).g[1]
    /\ Search(intent_patterns[2], Lower(text)).g[1] < Search(intent_patterns[1], Lower(text)).g[1]

\* what context pattern k captures in the trimmed text of the call, trimmed
\* and without a leading article
CleanCapture(k) ==
    LET m == Search(ContextPatterns[k], Lower(Strip(text)))
    IN  SubPrefix(ArticlePrefix, Strip(Group1(Strip(text), m)))

ContextMatches(k) == Search(ContextPatterns[k], Lower(Strip(text))).ok

\* C18 as stated: the context comes from the first pattern of the list that
\* matches the text, and is empty when what that pattern captures is 3
\* characters or fewer.
C18_ContextOfFirstMatch ==
    ParseReturned =>
        LET matching == {k \in 1..Len(ContextPatterns) : ContextMatches(k)}
        IN  parsed.context =
                IF matching = {} THEN ""
                ELSE IF Len(CleanCapture(SetMin(matching))) > 3
                THEN CleanCapture(SetMin(matching))
                ELSE ""

\* C18, amended: the context comes from the first pattern of the list that
\* matches with a capture which, trimmed and without its leading article,
\* is longer than 3 characters; a pattern with a shorter capture is passed
\* over for the next one; the context is empty when there is no such
\* pattern, so it is empty or longer than 3 characters.
C18_ContextOfFirstMeaningfulMatch ==
    ParseReturned =>
        LET meaningful == {k \in 1..Len(ContextPatterns) :
                              ContextMatches(k) /\ Len(CleanCapture(k)) > 3}
        IN  /\ parsed.context =
                   IF meaningful = {} THEN "" ELSE CleanCapture(SetMin(meaningful))
            /\ parsed.context = "" \/ Len(parsed.context) > 3

\* the third pattern has captured 3 characters, and the context is what the
\* fifth pattern captured
C18_Witness ==
    /\ op = "parse"
    /\ ContextMatches(3) /\ CleanCapture(3) = "pro"
    /\ ~ContextMatches(4)
    /\ ContextMatches(5) /\ CleanCapture(5) = "beginner"
    /\ parsed.context = "beginner"

=============================================================================
